---- MODULE Spec2Model ----
(***************************************************************************)
(* A model of the DICOM class of src/dicom/dicom.py: the record set built  *)
(* by the constructor, and the per-record loops of process_static and      *)
(* process_dynamic with the normalisation arithmetic and the export step.  *)
(*                                                                         *)
(* Pixel arrays are modelled as flat sequences of integer samples (every   *)
(* numpy operation the code applies is element-wise or a reduction over    *)
(* all elements, so the 2-D shape only survives as the length).  The       *)
(* float64 expression  uint8((num / den) * 255)  is modelled by the        *)
(* truncating integer quotient (num * 255) \div den, which agrees with the *)
(* IEEE-754 double result for every 0 <= num <= den < 260.                 *)
(***************************************************************************)
EXTENDS Integers, Sequences, FiniteSets, TLC

\* ------------------------------------------------------------------ bounds
MaxLen == 2          \* longest generated pixel array
NegSamples == 1      \* samples are drawn from -NegSamples .. MaxSample
MaxSample == 2
MaxP == 1            \* min_p / max_p are drawn from 0 .. MaxP
MaxCalls == 2        \* process_* calls made on one DICOM object

Samples == (0 - NegSamples) .. MaxSample
Windows == 0 .. MaxP

\* ------------------------------------------------------- optional values
None == [some |-> FALSE, val |-> 0]
Some(v) == [some |-> TRUE, val |-> v]

\* Python truthiness of an `int | None` argument: None and 0 are falsy.
Truthy(opt) == opt.some /\ opt.val # 0

\* ------------------------------------------------------------ file names
DotDcm == <<".", "d", "c", "m">>
DotTxt == <<".", "t", "x", "t">>
NameA == <<"a">> \o DotDcm
NameB == <<"b">> \o DotDcm
NameD == <<"d">> \o DotDcm
NameC == <<"c">> \o DotTxt
NameSub == <<"s", "u", "b">>

\* fnmatch of a name against the pattern "*.dcm": some (possibly empty)
\* prefix followed by the literal ".dcm".
MatchStarDotDcm(name) ==
    /\ Len(name) >= Len(DotDcm)
    /\ SubSeq(name, Len(name) - Len(DotDcm) + 1, Len(name)) = DotDcm

\* pathlib's PurePath.stem: the name without its last suffix; a dot in the
\* first or the last position does not start a suffix.
LastDot(name) ==
    LET dots == {i \in 1..Len(name) : name[i] = "."}
    IN  IF dots = {} THEN 0 ELSE CHOOSE i \in dots : \A j \in dots : j <= i

Stem(name) ==
    LET i == LastDot(name)
    IN  IF 1 < i /\ i < Len(name) THEN SubSeq(name, 1, i - 1) ELSE name

\* ------------------------------------------------------------- datasets
\* What pydicom.dcmread yields for a file: a dataset that either has a
\* pixel_array attribute or not.
NoPixelData == [has_pixel_array |-> FALSE, pixel_array |-> <<>>]
WithPixels(arr) == [has_pixel_array |-> TRUE, pixel_array |-> arr]

ExampleArray == <<0, 50, 100, 200>>

RawArrays ==
    UNION {[1..n -> Samples] : n \in 1..MaxLen} \cup {ExampleArray}

Datasets == {NoPixelData} \cup {WithPixels(a) : a \in RawArrays}

\* the datasets stored in the files of a directory
DirDatasets == {NoPixelData, WithPixels(<<0, 2>>), WithPixels(<<1, 2>>)}

\* ----------------------------------------------------------- file system
FileEntry(n, ds) == [name |-> n, is_dir |-> FALSE, dataset |-> ds, children |-> {}]
DirEntry(n, ch) == [name |-> n, is_dir |-> TRUE, dataset |-> NoPixelData, children |-> ch]

MissingPath ==
    [exists |-> FALSE, is_file |-> FALSE, name |-> NameA,
     dataset |-> NoPixelData, entries |-> {}]

SingleFiles ==
    {[exists |-> TRUE, is_file |-> TRUE, name |-> n, dataset |-> ds, entries |-> {}] :
        n \in {NameA, NameC}, ds \in Datasets}

DcmNames == {NameA, NameB, NameD}

\* a directory holds any of the *.dcm files, and always a file of another
\* extension and a sub-directory with a *.dcm file of its own

Directories ==
    {[exists |-> TRUE, is_file |-> FALSE, name |-> NameSub, dataset |-> NoPixelData,
      entries |-> {FileEntry(n, d[n]) : n \in DOMAIN d} \cup other] :
        d \in UNION {[S -> DirDatasets] : S \in SUBSET DcmNames},
        other \in {{FileEntry(NameC, WithPixels(<<1, 2>>)),
                     DirEntry(NameSub, {NameB})}}}

FileSystems == {MissingPath} \cup SingleFiles \cup Directories

\* ------------------------------------------------------------------ state
VARIABLES
    fs,               \* the file system under the path given to DICOM()
    pc,               \* "new", "notfound", "idle", "running", "returned", "raised"
    dcm_files,        \* self.dcm_files: sequence of file names
    call,             \* arguments of the process_* call in progress
    idx,              \* position of the for loop in dcm_files
    processed_files,  \* the local list processed_files
    written,          \* files saved by _export during this call, in order
    hounsfield_min,   \* locals of process_dynamic after the last record
    hounsfield_max,
    np_invalid,       \* a 0/0 division was evaluated during this call
    calls             \* number of process_* calls started

vars == <<fs, pc, dcm_files, call, idx, processed_files, written,
          hounsfield_min, hounsfield_max, np_invalid, calls>>

NoCall == [mode |-> "none", min_p |-> None, max_p |-> None,
           output_format |-> "png", plot |-> FALSE]

Init ==
    /\ fs \in FileSystems
    /\ pc = "new"
    /\ dcm_files = <<>>
    /\ call = NoCall
    /\ idx = 1
    /\ processed_files = <<>>
    /\ written = <<>>
    /\ hounsfield_min = None
    /\ hounsfield_max = None
    /\ np_invalid = FALSE
    /\ calls = 0

\* ------------------------------------------------------------ constructor
\* variant: the pattern is matched recursively (rglob)
Glob_recursive(entries) ==
    {e.name : e \in {x \in entries : MatchStarDotDcm(x.name)}}
        \cup {n \in UNION {x.children : x \in entries} : MatchStarDotDcm(n)}

\* Path.glob("*.dcm"): the direct entries of the directory matching the
\* pattern (no descent into sub-directories).
Glob(entries) == {e.name : e \in {x \in entries : MatchStarDotDcm(x.name)}}

\* all orders in which the file system may enumerate a set of names
Orderings(S) ==
    {s \in [1..Cardinality(S) -> S] : \A i, j \in 1..Cardinality(S) : s[i] = s[j] => i = j}

\* the record set __init__ builds for an existing path
ResolveRecords(f) ==
    IF f.is_file THEN {<<f.name>>} ELSE Orderings(Glob(f.entries))

Construct ==
    /\ pc = "new"
    /\ fs.exists
    /\ dcm_files' \in ResolveRecords(fs)
    /\ pc' = "idle"
    /\ UNCHANGED <<fs, call, idx, processed_files, written,
                   hounsfield_min, hounsfield_max, np_invalid, calls>>

ConstructNotFound ==
    /\ pc = "new"
    /\ ~fs.exists
    /\ pc' = "notfound"
    /\ UNCHANGED <<fs, dcm_files, call, idx, processed_files, written,
                   hounsfield_min, hounsfield_max, np_invalid, calls>>

\* pydicom.dcmread(file)
DcmRead(name) ==
    IF fs.is_file THEN fs.dataset
    ELSE (CHOOSE e \in fs.entries : e.name = name).dataset

\* hasattr(dcm_file, "pixel_array")
HasPixelArray(ds) == ds.has_pixel_array

\* ------------------------------------------------------------- arithmetic
\* np.min / np.max / ndarray.max over all samples
ArrMin(arr) == CHOOSE v \in {arr[k] : k \in 1..Len(arr)} : \A k \in 1..Len(arr) : v <= arr[k]

\* variant: the first sample is taken for the maximum
ArrMax_first(arr) == arr[1]

ArrMax(arr) == CHOOSE v \in {arr[k] : k \in 1..Len(arr)} : \A k \in 1..Len(arr) : arr[k] <= v

\* np.maximum(arr, 0)
Maximum0(arr) == [k \in 1..Len(arr) |-> IF arr[k] < 0 THEN 0 ELSE arr[k]]

\* integer quotient rounded toward zero, as a C float-to-integer cast does
TruncDiv(a, b) ==
    IF (a >= 0) = (b > 0) THEN (IF a >= 0 THEN a ELSE 0 - a) \div (IF b > 0 THEN b ELSE 0 - b)
    ELSE 0 - ((IF a >= 0 THEN a ELSE 0 - a) \div (IF b > 0 THEN b ELSE 0 - b))

\* variant: the scaled value is rounded to the nearest integer
ToUint8_nearest(num, den) == ((2 * num * 255 + den) \div (2 * den)) % 256

\* np.uint8((num / den) * 255) for den # 0: scale, drop the fraction, keep
\* the low 8 bits
ToUint8(num, den) == TruncDiv(num * 255, den) % 256

\* np.uint8(nan): the C conversion of a NaN to an unsigned integer is
\* undefined; any byte may result.  Two representative bytes are kept.
NaNCastOutcomes == {0, 255}

\* ------------------------------------------------------ static normaliser
\* lines 80-93: the arrays process_static may compute for one raw array
StaticOutputs(raw) ==
    LET pixel_array_pos == Maximum0(raw)
        m == ArrMax(pixel_array_pos)
    IN  IF m = 0
        THEN [1..Len(raw) -> NaNCastOutcomes]
        ELSE {[k \in 1..Len(raw) |-> ToUint8(pixel_array_pos[k], m)]}

\* the float division of line 87 evaluates 0/0 (numpy "invalid value")
StaticInvalid(raw) == ArrMax(Maximum0(raw)) = 0

\* ----------------------------------------------------- dynamic normaliser
\* lines 144-145: the conditional assignment is followed by an
\* unconditional one, so the value of np.min always ends up in the local
ResolveMin(min_p, arr) ==
    LET first == IF Truthy(min_p) THEN min_p ELSE None
        second == Some(ArrMin(arr))
    IN  second.val

\* lines 147-148
ResolveMax(max_p, arr) ==
    LET first == IF Truthy(max_p) THEN max_p ELSE None
        second == Some(ArrMax(arr))
    IN  second.val

\* lines 154-155: in-place clipping
Clip(arr, lo, hi) ==
    LET low == [k \in 1..Len(arr) |-> IF arr[k] < lo THEN lo ELSE arr[k]]
    IN  [k \in 1..Len(arr) |-> IF low[k] > hi THEN hi ELSE low[k]]

\* lines 150-162: the arrays process_dynamic may compute for one raw array
DynamicOutputs(raw, min_p, max_p) ==
    LET hmin == ResolveMin(min_p, raw)
        hmax == ResolveMax(max_p, raw)
        hounsfield_range == hmax - hmin
        clipped == Clip(raw, hmin, hmax)
    IN  IF hounsfield_range = 0
        THEN [1..Len(raw) -> NaNCastOutcomes]
        ELSE {[k \in 1..Len(raw) |-> ToUint8(clipped[k] - hmin, hounsfield_range)]}

\* the division of line 158 has a zero divisor
DynamicInvalid(raw, min_p, max_p) == ResolveMax(max_p, raw) - ResolveMin(min_p, raw) = 0

\* ---------------------------------------------------------------- export
ExportDir(plot) == IF plot THEN "plt" ELSE "img"

\* the file _export saves to, below output_dir
ExportPath(name, format, plot) ==
    [dir |-> ExportDir(plot), stem |-> Stem(name),
     ext |-> IF format = "jpg" THEN "jpg" ELSE "png"]

\* variant: the new array is put in front of the list
AppendProcessed_front(pf, out) == <<out>> \o pf

\* processed_files.append(...)
AppendProcessed(pf, out) == Append(pf, out)

\* ----------------------------------------------------------------- calls
Formats == {"png", "jpg"}
OptWindows == {None} \cup {Some(v) : v \in Windows}

CanCall == pc \in {"idle", "returned", "raised"} /\ calls < MaxCalls

BeginCall(c) ==
    /\ call' = c
    /\ idx' = 1
    /\ processed_files' = <<>>
    /\ written' = <<>>
    /\ hounsfield_min' = None
    /\ hounsfield_max' = None
    /\ np_invalid' = FALSE
    /\ calls' = calls + 1
    /\ pc' = "running"
    /\ UNCHANGED <<fs, dcm_files>>

\* process_static up to the loop (lines 60-65)
CallStatic ==
    /\ CanCall
    /\ \E f \in Formats, p \in BOOLEAN :
         BeginCall([mode |-> "static", min_p |-> None, max_p |-> None,
                    output_format |-> f, plot |-> p])

\* process_dynamic up to the loop (lines 126-131)
CallDynamic ==
    /\ CanCall
    /\ \E lo \in OptWindows, hi \in OptWindows, f \in Formats, p \in BOOLEAN :
         BeginCall([mode |-> "dynamic", min_p |-> lo, max_p |-> hi,
                    output_format |-> f, plot |-> p])

InLoop(mode) == pc = "running" /\ call.mode = mode /\ idx <= Len(dcm_files)

\* one iteration on a file without pixel data: `continue`
Skip(mode) ==
    /\ InLoop(mode)
    /\ ~HasPixelArray(DcmRead(dcm_files[idx]))
    /\ idx' = idx + 1
    /\ UNCHANGED <<fs, pc, dcm_files, call, processed_files, written,
                   hounsfield_min, hounsfield_max, np_invalid, calls>>

\* _export returns: the file is saved under the sub-directory
ExportOk(out) ==
    /\ written' = Append(written, [path |-> ExportPath(dcm_files[idx], call.output_format, call.plot),
                                   data |-> out])
    /\ idx' = idx + 1
    /\ UNCHANGED pc

\* _export raises, in mkdir or in save: the exception leaves process_*
ExportRaises ==
    /\ pc' = "raised"
    /\ UNCHANGED <<written, idx>>

StaticBody(export_ok) ==
    /\ InLoop("static")
    /\ HasPixelArray(DcmRead(dcm_files[idx]))
    /\ LET raw == DcmRead(dcm_files[idx]).pixel_array
       IN  /\ \E out \in StaticOutputs(raw) :
                /\ processed_files' = AppendProcessed(processed_files, out)
                /\ IF export_ok THEN ExportOk(out) ELSE ExportRaises
           /\ np_invalid' = (np_invalid \/ StaticInvalid(raw))
    /\ UNCHANGED <<fs, dcm_files, call, hounsfield_min, hounsfield_max, calls>>

DynamicBody(export_ok) ==
    /\ InLoop("dynamic")
    /\ HasPixelArray(DcmRead(dcm_files[idx]))
    /\ LET raw == DcmRead(dcm_files[idx]).pixel_array
       IN  /\ hounsfield_min' = Some(ResolveMin(call.min_p, raw))
           /\ hounsfield_max' = Some(ResolveMax(call.max_p, raw))
           /\ \E out \in DynamicOutputs(raw, call.min_p, call.max_p) :
                /\ processed_files' = AppendProcessed(processed_files, out)
                /\ IF export_ok THEN ExportOk(out) ELSE ExportRaises
           /\ np_invalid' = (np_invalid \/ DynamicInvalid(raw, call.min_p, call.max_p))
    /\ UNCHANGED <<fs, dcm_files, call, calls>>

StaticSkip == Skip("static")
StaticRecord == StaticBody(TRUE)
StaticExportFails == StaticBody(FALSE)
DynamicSkip == Skip("dynamic")
DynamicRecord == DynamicBody(TRUE)
DynamicExportFails == DynamicBody(FALSE)

\* `return processed_files` once the loop is exhausted
Return(mode) ==
    /\ pc = "running"
    /\ call.mode = mode
    /\ idx > Len(dcm_files)
    /\ pc' = "returned"
    /\ UNCHANGED <<fs, dcm_files, call, idx, processed_files, written,
                   hounsfield_min, hounsfield_max, np_invalid, calls>>

StaticReturn == Return("static")
DynamicReturn == Return("dynamic")

Next ==
    \/ Construct
    \/ ConstructNotFound
    \/ CallStatic
    \/ CallDynamic
    \/ StaticSkip
    \/ StaticRecord
    \/ StaticExportFails
    \/ StaticReturn
    \/ DynamicSkip
    \/ DynamicRecord
    \/ DynamicExportFails
    \/ DynamicReturn

Spec == Init /\ [][Next]_vars

\* ======================================================== properties
\* loop positions whose normalised array has been appended
DoneCount == IF pc = "raised" THEN idx ELSE idx - 1

HasPixels(i) == DcmRead(dcm_files[i]).has_pixel_array

RECURSIVE PixelIdx(_)
\* the positions 1..n of dcm_files that hold pixel data, in order
PixelIdx(n) ==
    IF n = 0 THEN <<>>
    ELSE IF HasPixels(n) THEN Append(PixelIdx(n - 1), n) ELSE PixelIdx(n - 1)

InCall(mode) == pc \in {"running", "returned", "raised"} /\ call.mode = mode

\* the raw array behind the i-th element of processed_files
RawOf(i) == DcmRead(dcm_files[PixelIdx(DoneCount)[i]]).pixel_array

Clamped(v) == IF v < 0 THEN 0 ELSE v

\* the window the caller asked for: a supplied bound, else the extremum
WantedMin(raw) ==
    IF call.min_p.some THEN call.min_p.val
    ELSE CHOOSE v \in {raw[k] : k \in DOMAIN raw} : \A k \in DOMAIN raw : v <= raw[k]

WantedMax(raw) ==
    IF call.max_p.some THEN call.max_p.val
    ELSE CHOOSE v \in {raw[k] : k \in DOMAIN raw} : \A k \in DOMAIN raw : raw[k] <= v

\* C1: in process_dynamic a supplied min_p (max_p) is the lower (upper)
\* bound used; the array's minimum (maximum) is used only for a bound that
\* was not supplied.
C1_CallerBoundWins ==
    (InCall("dynamic") /\ Len(processed_files) > 0) =>
        LET raw == RawOf(Len(processed_files))
        IN  /\ hounsfield_min = Some(WantedMin(raw))
            /\ hounsfield_max = Some(WantedMax(raw))

\* C2: records without pixel data are skipped without ending the run; the
\* result holds, in record-set order, the normalised arrays of exactly the
\* records with pixel data, and one file is written per returned array.
C2_Inv ==
    (pc \in {"running", "returned"} /\ call.mode \in {"static", "dynamic"}) =>
        LET seen == PixelIdx(idx - 1)
        IN  /\ Len(processed_files) = Len(seen)
            /\ Len(written) = Len(seen)
            /\ \A i \in 1..Len(seen) :
                 LET raw == DcmRead(dcm_files[seen[i]]).pixel_array
                 IN  /\ processed_files[i] \in
                          (IF call.mode = "static" THEN StaticOutputs(raw)
                           ELSE DynamicOutputs(raw, call.min_p, call.max_p))
                     /\ written[i].data = processed_files[i]
                     /\ written[i].path.stem = Stem(dcm_files[seen[i]])

C2_Step ==
    (pc = "running" /\ idx <= Len(dcm_files) /\ ~HasPixels(idx)) =>
        /\ pc' = "running"
        /\ idx' = idx + 1
        /\ processed_files' = processed_files
        /\ written' = written

C2_SkipKeepsOrder == []C2_Inv /\ [][C2_Step]_vars

C2_Witness ==
    /\ pc = "returned"
    /\ Len(dcm_files) = 3
    /\ HasPixels(1) /\ ~HasPixels(2) /\ HasPixels(3)
    /\ Len(processed_files) = 2
    /\ Len(written) = 2
    /\ processed_files[1] # processed_files[2]

\* C3: with an explicit window L < H process_dynamic maps every sample <= L
\* to 0, every sample >= H to 255, and is monotone in between.
C3_WindowClips ==
    (InCall("dynamic") /\ call.min_p.some /\ call.max_p.some
        /\ call.min_p.val < call.max_p.val) =>
        \A i \in 1..Len(processed_files) :
            LET raw == RawOf(i)
                out == processed_files[i]
            IN  \A k \in DOMAIN raw :
                  /\ raw[k] <= call.min_p.val => out[k] = 0
                  /\ raw[k] >= call.max_p.val => out[k] = 255
                  /\ \A j \in DOMAIN raw : raw[j] <= raw[k] => out[j] <= out[k]

\* C4: process_static turns an array without a positive sample into an
\* all-zero array, without evaluating a division by the zero maximum.
C4_ZeroMaxGuarded ==
    InCall("static") =>
        \A i \in 1..Len(processed_files) :
            (\A k \in DOMAIN RawOf(i) : RawOf(i)[k] <= 0) =>
                /\ \A k \in DOMAIN RawOf(i) : processed_files[i][k] = 0
                /\ ~np_invalid

\* C5: in process_dynamic a window of zero range gives an all-zero array
\* and no division by the zero range takes place.
C5_ZeroRangeGuarded ==
    InCall("dynamic") =>
        \A i \in 1..Len(processed_files) :
            (WantedMin(RawOf(i)) = WantedMax(RawOf(i))) =>
                /\ \A k \in DOMAIN RawOf(i) : processed_files[i][k] = 0
                /\ ~np_invalid

\* C6: in process_dynamic a record whose resolved upper bound is below its
\* resolved lower bound yields no normalised array and no exported file.
C6_InvertedWindowRejected ==
    InCall("dynamic") =>
        \A i \in 1..Len(processed_files) : WantedMax(RawOf(i)) >= WantedMin(RawOf(i))

\* C7 as stated: an array with a non-negative sample gives exactly one
\* output sample equal to 255, and all output samples within 0..255.
C7_ExactlyOne255 ==
    InCall("static") =>
        \A i \in 1..Len(processed_files) :
            (\E k \in DOMAIN RawOf(i) : RawOf(i)[k] >= 0) =>
                /\ Cardinality({k \in DOMAIN RawOf(i) : processed_files[i][k] = 255}) = 1
                /\ \A k \in DOMAIN RawOf(i) : processed_files[i][k] \in 0..255

\* C7 amended: an array with a strictly positive sample gives at least one
\* output sample equal to 255: exactly the samples equal to the array's
\* maximum map to 255, and all output samples lie within 0..255.
C7_MaxMapsTo255 ==
    InCall("static") =>
        \A i \in 1..Len(processed_files) :
            LET raw == RawOf(i)
                out == processed_files[i]
            IN  (\E k \in DOMAIN raw : raw[k] > 0) =>
                    /\ \E k \in DOMAIN raw : out[k] = 255
                    /\ \A k \in DOMAIN raw :
                         out[k] = 255 <=> (\A j \in DOMAIN raw : raw[j] <= raw[k])
                    /\ \A k \in DOMAIN raw : out[k] \in 0..255

C7_Witness ==
    /\ InCall("static")
    /\ Len(processed_files) = 1
    /\ RawOf(1) = <<2, 2>>
    /\ processed_files[1] = <<255, 255>>

\* C8: when the export of one record fails, every other record with pixel
\* data is still normalised and exported by the same run.
C8_ExportFailureIsolated ==
    (pc \in {"returned", "raised"} /\ call.mode \in {"static", "dynamic"}) =>
        \A i \in 1..Len(dcm_files) :
            (HasPixels(i) /\ ~(pc = "raised" /\ i = idx)) =>
                \E w \in 1..Len(written) : written[w].path.stem = Stem(dcm_files[i])

\* C9 as stated: static normalisation maps a sample v of an array with
\* maximum M > 0 to 255*v/M rounded to the nearest integer, so that
\* [[0,50],[100,200]] becomes [[0,64],[128,255]].
C9_RoundsToNearest ==
    InCall("static") =>
        \A i \in 1..Len(processed_files) :
            LET raw == RawOf(i)
                out == processed_files[i]
            IN  /\ raw = ExampleArray => out = <<0, 64, 128, 255>>
                /\ \A k \in DOMAIN raw : \A m \in 1..255 :
                     ((\E j \in DOMAIN raw : raw[j] = m) /\ (\A j \in DOMAIN raw : raw[j] <= m)) =>
                         out[k] = (2 * 255 * Clamped(raw[k]) + m) \div (2 * m)

\* C9 amended: static normalisation maps a sample v of an array with
\* maximum M > 0 to 255*v/M with the fraction dropped, so that
\* [[0,50],[100,200]] becomes [[0,63],[127,255]].
C9_Truncates ==
    InCall("static") =>
        \A i \in 1..Len(processed_files) :
            LET raw == RawOf(i)
                out == processed_files[i]
            IN  /\ raw = ExampleArray => out = <<0, 63, 127, 255>>
                /\ \A k \in DOMAIN raw : \A m \in 1..255 :
                     ((\E j \in DOMAIN raw : raw[j] = m) /\ (\A j \in DOMAIN raw : raw[j] <= m)) =>
                         out[k] = (255 * Clamped(raw[k])) \div m

C9_Witness ==
    /\ pc = "returned"
    /\ call.mode = "static"
    /\ Len(processed_files) = 1
    /\ RawOf(1) = ExampleArray
    /\ processed_files[1] = <<0, 63, 127, 255>>

\* C10: the constructor fixes the record set: a file path gives exactly
\* that file, a directory exactly its direct entries named *.dcm, and no
\* process_* call changes the record set afterwards.
EndsInDotDcm(name) == \E k \in 0..Len(name) : name = SubSeq(name, 1, k) \o DotDcm

ExpectedRecords ==
    IF fs.is_file THEN {fs.name}
    ELSE {n \in {e.name : e \in fs.entries} : EndsInDotDcm(n)}

C10_Inv ==
    (pc \notin {"new", "notfound"}) =>
        /\ {dcm_files[i] : i \in 1..Len(dcm_files)} = ExpectedRecords
        /\ Len(dcm_files) = Cardinality(ExpectedRecords)

C10_Step == (pc # "new") => dcm_files' = dcm_files

C10_RecordSetFixed == []C10_Inv /\ [][C10_Step]_vars

C10_Witness ==
    /\ pc = "returned"
    /\ calls >= 2
    /\ ~fs.is_file
    /\ {e.name : e \in fs.entries} = {NameA, NameB, NameC, NameSub}
    /\ {dcm_files[i] : i \in 1..Len(dcm_files)} = {NameA, NameB}

====
